---- MODULE Spec2Model ----
(***************************************************************************)
(* gif_probe (src/src/main.rs): one run of main() over one GIF stream.     *)
(*                                                                         *)
(* The GIF decoder (crate `gif`) is an external collaborator.  It is       *)
(* modelled by the file it reads: a canvas, an optional global palette and *)
(* a sequence of frames, handed out strictly in order, one frame per       *)
(* request.  read_next_frame decodes the frame's pixels into frame.buffer; *)
(* next_frame_info parses the header only and leaves frame.buffer empty.   *)
(* Every decoder request may also fail (malformed data, I/O error, memory  *)
(* ceiling exceeded): that is a nondeterministic outcome of the request.   *)
(***************************************************************************)
EXTENDS Integers, Sequences, FiniteSets, TLC

(***************************************************************************)
(* Bounds of the model.                                                    *)
(***************************************************************************)
\* longest frame sequence of an input file
MaxFrames == 3
\* largest per-frame delay (ticks) of an input file
MaxDelay == 1

(***************************************************************************)
(* Rust's Option<T>: None is the empty sequence, Some(x) is <<x>>.         *)
(***************************************************************************)
None == << >>
Some(x) == << x >>
IsSome(o) == o # << >>
Unwrap(o) == o[1]

\* u16::MAX, the range of GifProbe.max_colors (and of u16::try_from)
U16Max == 65535

Max(a, b) == IF a >= b THEN a ELSE b

\* slice::contains: some element of the buffer equals x
Contains(buffer, x) == \E i \in 1..Len(buffer) : buffer[i] = x

\* All sequences over S of length at most n.
SeqsUpTo(S, n) == UNION { [1..k -> S] : k \in 0..n }

(***************************************************************************)
(* Input domains.  A frame of the file carries its header fields and its   *)
(* pixel data (buffer: one palette index per pixel, width * height of      *)
(* them); a palette is represented by its byte length, the only thing the  *)
(* program reads of it.                                                    *)
(***************************************************************************)
Delays == 0..MaxDelay

\* gif::DisposalMethod values used by the inputs
Disposals == {"Keep", "Background"}

\* byte lengths of colour tables: 2, 4, 32 and 256 RGB entries
GlobalPalettes == {None, Some(6), Some(768)}
LocalPalettes == {None, Some(12), Some(96)}

\* the all-zero pixel data of a w x h frame
Zeros(w, h) == [i \in 1..(w * h) |-> 0]

\* every pixel buffer of a w x h frame over the palette indices 0 and 1
Buffers(w, h) == [1..(w * h) -> {0, 1}]

Frame(tr, buf, dl, dp, w, h, pal) ==
    [transparent |-> tr, buffer |-> buf, delay |-> dl, dispose |-> dp,
     width |-> w, height |-> h, palette |-> pal]

\* frame sizes: zero width, zero height, and a two-pixel frame
FrameDims == {<<0, 1>>, <<1, 0>>, <<2, 1>>}

\* a one-pixel frame with nothing declared
PlainFrame(dl, dp, pal) == Frame(None, Zeros(1, 1), dl, dp, 1, 1, pal)

\* First frames for the transparency rules: declared index, pixel data,
\* disposal method and size vary.
AlphaFirstFrames ==
    UNION { { Frame(tr, buf, 0, dp, d[1], d[2], None) :
                tr \in {None, Some(0), Some(1)}, buf \in Buffers(d[1], d[2]),
                dp \in Disposals } : d \in FrameDims }

\* Later frames for the transparency rules: disposal method, size and delay
\* vary; each declares a transparent index that every one of its pixels has.
AlphaLaterFrames ==
    { Frame(Some(0), Zeros(2, 1), dl, "Keep", 2, 1, None) : dl \in Delays }
    \cup
    { Frame(Some(0), Zeros(d[1], d[2]), dl, "Background", d[1], d[2], None) :
        dl \in Delays, d \in FrameDims }

File(w, h, gp, fs) ==
    [width |-> w, height |-> h, global_palette |-> gp, frames |-> fs]

Args(md, mp) == [max_duration |-> md, max_pixels |-> mp]

Input(f, a) == [file |-> f, args |-> a]

\* canvas sizes: zero area, one pixel, two pixels, 256 x 256 = 2^16, and
\* 65535 x 32767 = 2147385345 pixels
Canvases == {<<0, 1>>, <<1, 1>>, <<2, 1>>, <<256, 256>>, <<65535, 32767>>}

\* Inputs exercising the transparency rules, first frame in detail.
RuleAInputs ==
    { Input(File(2, 1, None, <<f>> \o rest), Args(md, None)) :
        f \in AlphaFirstFrames,
        rest \in SeqsUpTo({ PlainFrame(1, dp, None) : dp \in Disposals },
                          MaxFrames - 1),
        md \in {None, Some(1)} }

\* Inputs exercising the transparency rules, later frames in detail.
RuleBInputs ==
    { Input(File(2, 1, None, <<f>> \o rest), Args(md, None)) :
        f \in { Frame(tr, <<0, 1>>, 0, dp, 2, 1, None) :
                  tr \in {None, Some(1), Some(2)}, dp \in Disposals },
        rest \in SeqsUpTo(AlphaLaterFrames, MaxFrames - 1),
        md \in {None, Some(1)} }

\* Inputs exercising the accumulation of delays and the duration ceiling.
ScanInputs ==
    { Input(File(1, 1, None, fs), Args(md, None)) :
        fs \in SeqsUpTo({ PlainFrame(dl, "Keep", None) : dl \in Delays },
                        MaxFrames),
        md \in {None} \cup { Some(m) : m \in 0..(MaxDelay + 1) } }

\* Inputs exercising the palette sizes.
PaletteInputs ==
    { Input(File(1, 1, gp, fs), Args(md, None)) :
        gp \in GlobalPalettes,
        fs \in SeqsUpTo({ PlainFrame(1, "Keep", pal) : pal \in LocalPalettes },
                        MaxFrames),
        md \in {None, Some(1)} }

\* Inputs exercising the pixel-area cap.
GateInputs ==
    { Input(File(c[1], c[2], gp, fs), Args(None, mp)) :
        c \in Canvases,
        gp \in {None, Some(6)},
        fs \in SeqsUpTo({ PlainFrame(1, "Keep", None) }, MaxFrames),
        mp \in {None, Some(0), Some(1), Some(2), Some(65535), Some(65536),
                Some(2147385344), Some(2147385345)} }

Inputs ==
    RuleAInputs \cup RuleBInputs \cup ScanInputs \cup PaletteInputs \cup GateInputs

(***************************************************************************)
(* State.                                                                  *)
(***************************************************************************)
VARIABLES
    file,       \* the GIF stream being read (never changes)
    args,       \* the command-line limits (never change)
    pc,         \* position of main(): Init, Gate, FirstFrame, Scanning,
                \*   Done, Emitted, Failed
    probe,      \* the GifProbe accumulator
    pos,        \* decoder position: number of frames handed out so far
    requests,   \* decoder requests made so far, in order
    output      \* records printed to stdout so far

vars == <<file, args, pc, probe, pos, requests, output>>

\* struct GifProbe as constructed at the top of main
NewProbe(w, h) ==
    [alpha |-> FALSE, max_colors |-> 0, duration |-> 0, frames |-> 0,
     width |-> w, height |-> h]

(***************************************************************************)
(* Pure parts of main.                                                     *)
(***************************************************************************)
\* Mutant of TooLarge: a canvas whose area equals the cap is rejected too.
TooLarge_AtLeast(mp, w, h) == IsSome(mp) /\ Unwrap(mp) <= w * h

\* Mutant of TooLarge: the area is multiplied in 16 bits and wraps.
TooLarge_Wrap16(mp, w, h) == IsSome(mp) /\ Unwrap(mp) < (w * h) % 65536

\* matches!(args.max_pixels, Some(m) if m < width as u64 * height as u64)
TooLarge(mp, w, h) == IsSome(mp) /\ Unwrap(mp) < w * h

\* p.len() / 3
ColorCount(len) == len \div 3

\* u16::try_from(n): fits exactly when n <= u16::MAX
FitsU16(n) == n <= U16Max

\* Mutant of WithPalette: the local palette's size overwrites the maximum.
WithPalette_Assign(mc, pal) ==
    IF IsSome(pal) THEN ColorCount(Unwrap(pal)) ELSE mc

\* probe.max_colors.max(colors of the frame's local palette, if any)
WithPalette(mc, pal) ==
    IF IsSome(pal) THEN Max(mc, ColorCount(Unwrap(pal))) ELSE mc

\* the palette's colour count does not fit u16: expect_path panics
PaletteOverflow(pal) == IsSome(pal) /\ ~FitsU16(ColorCount(Unwrap(pal)))

\* Mutant of RuleA: only the first pixel is compared.
RuleA_FirstPixel(frame) ==
    /\ IsSome(frame.transparent)
    /\ Len(frame.buffer) > 0
    /\ frame.buffer[1] = Unwrap(frame.transparent)

\* Mutant of RuleA: the declared index is trusted without looking at pixels.
RuleA_TrustHeader(frame) == IsSome(frame.transparent)

\* Rule A: matches!(frame.transparent, Some(tr) if frame.buffer.contains(&tr))
RuleA(frame) ==
    IsSome(frame.transparent) /\ Contains(frame.buffer, Unwrap(frame.transparent))

\* Mutant of RuleB: one nonzero dimension is enough.
RuleB_EitherDimension(frame) ==
    frame.dispose = "Background" /\ (frame.width > 0 \/ frame.height > 0)

\* Mutant of RuleB: the wrong disposal method is tested.
RuleB_Previous(frame) ==
    frame.dispose = "Previous" /\ frame.width > 0 /\ frame.height > 0

\* Rule B: dispose == Background && width > 0 && height > 0
RuleB(frame) ==
    frame.dispose = "Background" /\ frame.width > 0 /\ frame.height > 0

\* Mutant of FirstFrameCount: rule B is applied to the first frame as well.
FirstFrameCount_RuleB(p, frame) ==
    [p EXCEPT !.alpha = p.alpha \/ RuleA(frame) \/ RuleB(frame),
              !.frames = p.frames + 1,
              !.duration = p.duration + frame.delay]

\* first statements of the body of `if let Some(frame) = read_next_frame()`:
\* the flag, the frame count and the duration
FirstFrameCount(p, frame) ==
    [p EXCEPT !.alpha = p.alpha \/ RuleA(frame),
              !.frames = p.frames + 1,
              !.duration = p.duration + frame.delay]

\* the whole body of `if let Some(frame) = decoder.read_next_frame()`
FirstFrameUpdate(p, frame) ==
    [FirstFrameCount(p, frame) EXCEPT
        !.max_colors = WithPalette(p.max_colors, frame.palette)]

\* Mutant of HeaderCount: the delay is assigned instead of added.
HeaderCount_AssignDelay(p, frame) ==
    [p EXCEPT !.alpha = p.alpha \/ RuleB(frame),
              !.frames = p.frames + 1,
              !.duration = frame.delay]

\* Mutant of HeaderCount: the flag is assigned instead of OR-ed.
HeaderCount_AssignAlpha(p, frame) ==
    [p EXCEPT !.alpha = RuleB(frame),
              !.frames = p.frames + 1,
              !.duration = p.duration + frame.delay]

\* first statements of the body of `while let Some(frame) = next_frame_info()`
HeaderCount(p, frame) ==
    [p EXCEPT !.alpha = p.alpha \/ RuleB(frame),
              !.frames = p.frames + 1,
              !.duration = p.duration + frame.delay]

\* the body of `while let Some(frame) = decoder.next_frame_info()` up to the
\* duration check
HeaderUpdate(p, frame) ==
    [HeaderCount(p, frame) EXCEPT
        !.max_colors = WithPalette(p.max_colors, frame.palette)]

\* Mutant of DurationReached: an unset ceiling defaults to zero.
DurationReached_DefaultZero(d, md) ==
    d >= (IF IsSome(md) THEN Unwrap(md) ELSE 0)

\* Mutant of DurationReached: the comparison is off by one tick.
DurationReached_OffByOne(d, md) == IsSome(md) /\ d + 1 >= Unwrap(md)

\* probe.duration >= args.max_duration.unwrap_or(u64::MAX); the sum of the
\* 16-bit delays of a file never reaches u64::MAX, so an unset ceiling is
\* never reached.
DurationReached(d, md) == IsSome(md) /\ d >= Unwrap(md)

(***************************************************************************)
(* The decoder.                                                            *)
(***************************************************************************)
\* the decoder has handed out every frame of the file
AtEnd == pos >= Len(file.frames)

\* the frame the next request hands out
NextFrame == file.frames[pos + 1]

\* Decoder::read_next_frame: header and decoded pixels
FullFrame(f) == f

\* Decoder::next_frame_info: header only, no pixels decoded
HeaderOnly(f) == [f EXCEPT !.buffer = << >>]

(***************************************************************************)
(* Initial state: main has parsed its arguments and holds the stream.      *)
(***************************************************************************)
Init ==
    /\ \E in \in Inputs : file = in.file /\ args = in.args
    /\ pc = "Init"
    /\ probe = NewProbe(0, 0)
    /\ pos = 0
    /\ requests = << >>
    /\ output = << >>

(***************************************************************************)
(* Steps of main.                                                          *)
(***************************************************************************)
\* a decoder request and how the decoder answered it
Request(op, result) == [op |-> op, result |-> result]

\* opts.read_info(reader) succeeds; the GifProbe is constructed
Open ==
    /\ pc = "Init"
    /\ requests' = Append(requests, Request("read_info", "ok"))
    /\ probe' = NewProbe(file.width, file.height)
    /\ pc' = "Gate"
    /\ UNCHANGED <<file, args, pos, output>>

\* opts.read_info(reader) fails: expect_path panics
OpenFail ==
    /\ pc = "Init"
    /\ requests' = Append(requests, Request("read_info", "err"))
    /\ pc' = "Failed"
    /\ UNCHANGED <<file, args, probe, pos, output>>

\* Mutant of LimitGate: max_colors is not seeded from the global palette.
LimitGate_NoSeed ==
    /\ pc = "Gate"
    /\ IF TooLarge(args.max_pixels, probe.width, probe.height)
       THEN pc' = "Failed"
       ELSE pc' = "FirstFrame"
    /\ UNCHANGED <<file, args, probe, pos, requests, output>>

\* the pixel-area check, then the seeding of max_colors from the global palette
LimitGate ==
    /\ pc = "Gate"
    /\ IF TooLarge(args.max_pixels, probe.width, probe.height)
          \/ PaletteOverflow(file.global_palette)
       THEN /\ pc' = "Failed"
            /\ UNCHANGED probe
       ELSE /\ pc' = "FirstFrame"
            /\ probe' = [probe EXCEPT !.max_colors =
                            IF IsSome(file.global_palette)
                            THEN ColorCount(Unwrap(file.global_palette))
                            ELSE probe.max_colors]
    /\ UNCHANGED <<file, args, pos, requests, output>>

\* decoder.read_next_frame() succeeds, with a frame or with none
ReadFirstFrame ==
    /\ pc = "FirstFrame"
    /\ IF AtEnd
       THEN /\ requests' = Append(requests, Request("read_next_frame", "none"))
            /\ pc' = "Scanning"
            /\ UNCHANGED <<probe, pos>>
       ELSE LET frame == FullFrame(NextFrame) IN
            /\ requests' = Append(requests, Request("read_next_frame", "frame"))
            /\ pos' = pos + 1
            /\ IF PaletteOverflow(frame.palette)
               THEN pc' = "Failed" /\ probe' = FirstFrameCount(probe, frame)
               ELSE pc' = "Scanning" /\ probe' = FirstFrameUpdate(probe, frame)
    /\ UNCHANGED <<file, args, output>>

\* decoder.read_next_frame() fails: expect_path panics
ReadFirstFrameFail ==
    /\ pc = "FirstFrame"
    /\ requests' = Append(requests, Request("read_next_frame", "err"))
    /\ pc' = "Failed"
    /\ UNCHANGED <<file, args, probe, pos, output>>

\* Mutant of NextFrameInfo: the decoder position is not advanced, so the loop
\* parses the same frame again.
NextFrameInfo_NoAdvance ==
    /\ pc = "Scanning"
    /\ IF AtEnd
       THEN /\ requests' = Append(requests, Request("next_frame_info", "none"))
            /\ pc' = "Done"
            /\ UNCHANGED probe
       ELSE LET frame == HeaderOnly(NextFrame) IN
            /\ requests' = Append(requests, Request("next_frame_info", "frame"))
            /\ IF PaletteOverflow(frame.palette)
               THEN pc' = "Failed" /\ probe' = HeaderCount(probe, frame)
               ELSE /\ probe' = HeaderUpdate(probe, frame)
                    /\ pc' = IF DurationReached(probe'.duration, args.max_duration)
                             THEN "Done" ELSE "Scanning"
    /\ UNCHANGED <<file, args, pos, output>>

\* Mutant of NextFrameInfo: the loop decodes every frame in full.
NextFrameInfo_FullDecode ==
    /\ pc = "Scanning"
    /\ IF AtEnd
       THEN /\ requests' = Append(requests, Request("read_next_frame", "none"))
            /\ pc' = "Done"
            /\ UNCHANGED <<probe, pos>>
       ELSE LET frame == FullFrame(NextFrame) IN
            /\ requests' = Append(requests, Request("read_next_frame", "frame"))
            /\ pos' = pos + 1
            /\ IF PaletteOverflow(frame.palette)
               THEN pc' = "Failed" /\ probe' = HeaderCount(probe, frame)
               ELSE /\ probe' = HeaderUpdate(probe, frame)
                    /\ pc' = IF DurationReached(probe'.duration, args.max_duration)
                             THEN "Done" ELSE "Scanning"
    /\ UNCHANGED <<file, args, output>>

\* one evaluation of the while-let: decoder.next_frame_info() succeeds, with
\* a frame (loop body, then the duration check) or with none (loop exit)
NextFrameInfo ==
    /\ pc = "Scanning"
    /\ IF AtEnd
       THEN /\ requests' = Append(requests, Request("next_frame_info", "none"))
            /\ pc' = "Done"
            /\ UNCHANGED <<probe, pos>>
       ELSE LET frame == HeaderOnly(NextFrame) IN
            /\ requests' = Append(requests, Request("next_frame_info", "frame"))
            /\ pos' = pos + 1
            /\ IF PaletteOverflow(frame.palette)
               THEN pc' = "Failed" /\ probe' = HeaderCount(probe, frame)
               ELSE /\ probe' = HeaderUpdate(probe, frame)
                    /\ pc' = IF DurationReached(probe'.duration, args.max_duration)
                             THEN "Done" ELSE "Scanning"
    /\ UNCHANGED <<file, args, output>>

\* Mutant of NextFrameInfoFail: a decode error ends the loop like end of stream.
NextFrameInfoFail_AsEnd ==
    /\ pc = "Scanning"
    /\ requests' = Append(requests, Request("next_frame_info", "err"))
    /\ pc' = "Done"
    /\ UNCHANGED <<file, args, probe, pos, output>>

\* decoder.next_frame_info() fails: expect_path panics
NextFrameInfoFail ==
    /\ pc = "Scanning"
    /\ requests' = Append(requests, Request("next_frame_info", "err"))
    /\ pc' = "Failed"
    /\ UNCHANGED <<file, args, probe, pos, output>>

\* println! of the record
Emit ==
    /\ pc = "Done"
    /\ output' = Append(output, probe)
    /\ pc' = "Emitted"
    /\ UNCHANGED <<file, args, probe, pos, requests>>

Next ==
    \/ Open
    \/ OpenFail
    \/ LimitGate
    \/ ReadFirstFrame
    \/ ReadFirstFrameFail
    \/ NextFrameInfo
    \/ NextFrameInfoFail
    \/ Emit

Spec == Init /\ [][Next]_vars

\* main is one sequential thread that runs until it returns or panics: a
\* step that can be taken is eventually taken.
FairSpec == Spec /\ WF_vars(Next)

TypeOK ==
    /\ pc \in {"Init", "Gate", "FirstFrame", "Scanning", "Done", "Emitted", "Failed"}
    /\ pos \in 0..Len(file.frames)
    /\ Len(output) <= 1

(***************************************************************************)
(* Vocabulary of the properties, stated on the file and the output alone.  *)
(***************************************************************************)
NumFrames == Len(file.frames)

\* the run printed a record
Emitted == pc = "Emitted" /\ Len(output) = 1

\* frame k of the file declares a transparent index that some pixel has
DeclaredAndUsed(k) ==
    LET f == file.frames[k] IN
    /\ f.transparent # << >>
    /\ \E i \in DOMAIN f.buffer : f.buffer[i] = f.transparent[1]

\* frame k of the file is disposed to background and has nonzero area
BackgroundArea(k) ==
    LET f == file.frames[k] IN
    f.dispose = "Background" /\ f.width >= 1 /\ f.height >= 1

\* sum of the delays of the first k frames of the file
RECURSIVE DelaySum(_)
DelaySum(k) == IF k = 0 THEN 0 ELSE DelaySum(k - 1) + file.frames[k].delay

\* the configured duration ceiling is reached by the first k frames
CeilingReachedBy(k) ==
    args.max_duration # << >> /\ DelaySum(k) >= args.max_duration[1]

\* length of the shortest non-empty prefix of the file whose delay sum
\* reaches the ceiling, or the whole file if none does
StopPoint ==
    IF \E k \in 1..NumFrames : CeilingReachedBy(k)
    THEN CHOOSE k \in 1..NumFrames :
            CeilingReachedBy(k) /\ \A j \in 1..(k - 1) : ~CeilingReachedBy(j)
    ELSE NumFrames

\* colour counts of the global palette and of the first k frames' palettes
PaletteSizes(k) ==
    {0}
    \cup (IF file.global_palette = << >> THEN {}
          ELSE {file.global_palette[1] \div 3})
    \cup { file.frames[j].palette[1] \div 3 :
             j \in { i \in 1..k : file.frames[i].palette # << >> } }

Largest(S) == CHOOSE x \in S : \A y \in S : y <= x

\* some decoder request was answered with an error
DecoderFailed == \E i \in 1..Len(requests) : requests[i].result = "err"

\* requests for a frame (full decode or header-only parse)
FrameRequests ==
    { i \in 1..Len(requests) :
        requests[i].op \in {"read_next_frame", "next_frame_info"} }

(***************************************************************************)
(* C1: if frame 0 declares a transparent index that occurs in its decoded  *)
(* buffer, every emitted record has alpha = true.                          *)
(***************************************************************************)
C1_DeclaredUsedIsAlpha ==
    (Emitted /\ NumFrames >= 1 /\ DeclaredAndUsed(1)) => output[1].alpha = TRUE

\* the index occurs only in the second pixel, and the record says alpha
C1_Witness ==
    /\ Emitted /\ NumFrames >= 1 /\ DeclaredAndUsed(1)
    /\ file.frames[1].buffer = <<0, 1>>
    /\ file.frames[1].transparent = <<1>>
    /\ output[1].alpha = TRUE

(***************************************************************************)
(* C2 (as claimed): if some frame with index >= 1 of a multi-frame file    *)
(* has background disposal and nonzero area, every emitted record has      *)
(* alpha = true, under every duration ceiling.                             *)
(***************************************************************************)
C2_AnyBackgroundFrameIsAlpha ==
    (Emitted /\ \E k \in 2..NumFrames : BackgroundArea(k))
        => output[1].alpha = TRUE

(***************************************************************************)
(* C2 (amended): if some frame with index >= 1 that the scan visited       *)
(* before it stopped has background disposal and nonzero area, every       *)
(* emitted record has alpha = true, whatever frame 0's transparency is.    *)
(***************************************************************************)
C2_VisitedBackgroundFrameIsAlpha ==
    (Emitted /\ \E k \in 2..pos : BackgroundArea(k))
        => output[1].alpha = TRUE

\* frame 0 has no transparency, a visited later frame has background disposal
C2_Witness ==
    /\ Emitted /\ NumFrames >= 2
    /\ ~DeclaredAndUsed(1)
    /\ \E k \in 2..pos : BackgroundArea(k)
    /\ output[1].alpha = TRUE

(***************************************************************************)
(* C3: if frame 0 declares a transparent index that no pixel of it has,    *)
(* and no frame with index >= 1 has background disposal with nonzero area, *)
(* every emitted record has alpha = false; the disposal method of frame 0  *)
(* and the transparent indices of later frames do not matter.              *)
(***************************************************************************)
C3_DeclaredUnusedIsNotAlpha ==
    ( /\ Emitted /\ NumFrames >= 1
      /\ file.frames[1].transparent # << >>
      /\ ~DeclaredAndUsed(1)
      /\ \A k \in 2..NumFrames : ~BackgroundArea(k) )
        => output[1].alpha = FALSE

\* frame 0 has background disposal and an unused index, a later frame
\* declares an index all its pixels have, and the record says no alpha
C3_Witness ==
    /\ Emitted /\ NumFrames >= 2
    /\ file.frames[1].transparent # << >>
    /\ ~DeclaredAndUsed(1)
    /\ BackgroundArea(1)
    /\ \A k \in 2..NumFrames : ~BackgroundArea(k)
    /\ \E k \in 2..pos : DeclaredAndUsed(k)
    /\ output[1].alpha = FALSE

(***************************************************************************)
(* C4: with a duration ceiling M configured, the frames handed out by the  *)
(* decoder never go beyond the shortest prefix of the file whose delay sum *)
(* is >= M, and a finished scan has visited exactly that prefix (the whole *)
(* file if no prefix reaches M).                                           *)
(***************************************************************************)
C4_StopsAtCeiling ==
    args.max_duration # << >> =>
        /\ pos <= StopPoint
        /\ (pc \in {"Done", "Emitted"} => pos = StopPoint)

(***************************************************************************)
(* C5: in every state, probe.frames is the number of frames handed out by  *)
(* the decoder and probe.duration is the sum of their delays; the emitted  *)
(* record carries these two values.                                        *)
(***************************************************************************)
C5_CountAndDurationExact ==
    /\ probe.frames = pos
    /\ probe.duration = DelaySum(pos)
    /\ (Emitted => output[1].frames = pos /\ output[1].duration = DelaySum(pos))

\* three frames visited, with a nonzero delay among the later ones
C5_Witness ==
    /\ Emitted /\ pos = 3
    /\ file.frames[1].delay = 1 /\ file.frames[3].delay = 1
    /\ output[1].frames = 3
    /\ output[1].duration = DelaySum(3)

(***************************************************************************)
(* C6: if max_pixels is configured and the canvas area exceeds it, no      *)
(* frame is ever requested from the decoder, main never gets past the      *)
(* limit check, and no record is emitted.                                  *)
(***************************************************************************)
C6_TooLargeFailsBeforeFrames ==
    (args.max_pixels # << >> /\ file.width * file.height > args.max_pixels[1])
        => /\ FrameRequests = {}
           /\ pos = 0
           /\ output = << >>
           /\ pc \in {"Init", "Gate", "Failed"}

\* a 256 x 256 canvas over a cap of 65535 pixels: failed after the open alone
C6_Witness ==
    /\ args.max_pixels = <<65535>>
    /\ file.width = 256 /\ file.height = 256
    /\ NumFrames >= 1
    /\ pc = "Failed"
    /\ requests = <<Request("read_info", "ok")>>
    /\ output = << >>

(***************************************************************************)
(* C7: once the decoder has answered a request with an error, main is in   *)
(* the failed state, that request is the last one made, and no record is   *)
(* emitted; a record is emitted at most once, and only by the step from    *)
(* Done.                                                                   *)
(***************************************************************************)
C7_DecoderFailureIsFatal ==
    /\ \A i \in 1..Len(requests) :
          requests[i].result = "err" =>
              i = Len(requests) /\ pc = "Failed" /\ output = << >>
    /\ Len(output) <= 1
    /\ (output # << >> => pc = "Emitted" /\ ~DecoderFailed)
    /\ (pc = "Failed" => output = << >>)

\* a header-only parse fails after two frames were accumulated
C7_Witness ==
    /\ pc = "Failed"
    /\ probe.frames = 2
    /\ Len(requests) = 4
    /\ requests[4] = Request("next_frame_info", "err")
    /\ output = << >>

(***************************************************************************)
(* C8: from the limit check on, probe.max_colors is the largest of 0, the  *)
(* global palette's byte length / 3 and the local palettes' byte length /  *)
(* 3 of the frames handed out so far; the emitted record carries it.       *)
(***************************************************************************)
C8_MaxColorsIsMaximum ==
    /\ (pc \in {"FirstFrame", "Scanning", "Done", "Emitted"}
          => probe.max_colors = Largest(PaletteSizes(pos)))
    /\ (Emitted => output[1].max_colors = Largest(PaletteSizes(pos)))

\* the scan stopped at the ceiling before a frame with a larger palette, and
\* the maximum comes from a local palette that is followed by a smaller one
C8_Witness ==
    /\ Emitted /\ pos = 2 /\ NumFrames = 3
    /\ file.global_palette = <<6>>
    /\ file.frames[1].palette = <<96>>
    /\ file.frames[2].palette = <<12>>
    /\ file.frames[3].palette = << >>
    /\ output[1].max_colors = 32

(***************************************************************************)
(* C9: with a duration ceiling configured, if the delay sum reaches the    *)
(* ceiling at a frame that is not the last frame of the file, the emitted  *)
(* frames value is less than the number of frames of the file.             *)
(***************************************************************************)
C9_TruncatedCountIsSmaller ==
    (Emitted /\ \E k \in 1..(NumFrames - 1) : CeilingReachedBy(k))
        => output[1].frames < NumFrames

(***************************************************************************)
(* C10: for a single-frame file whose frame declares no transparent index, *)
(* every emitted record has alpha = false, whatever the frame's disposal   *)
(* method, size, delay and palette are.                                    *)
(***************************************************************************)
C10_SingleFrameNoIndexIsNotAlpha ==
    (Emitted /\ NumFrames = 1 /\ file.frames[1].transparent = << >>)
        => output[1].alpha = FALSE

\* the single frame has background disposal and nonzero area
C10_Witness ==
    /\ Emitted /\ NumFrames = 1
    /\ file.frames[1].transparent = << >>
    /\ BackgroundArea(1)
    /\ output[1].alpha = FALSE

(***************************************************************************)
(* C11: with no duration ceiling configured, the emitted frames is the     *)
(* number of frames of the file and the emitted duration is the sum of all *)
(* its frame delays.                                                       *)
(***************************************************************************)
C11_NoCeilingVisitsAll ==
    (Emitted /\ args.max_duration = << >>)
        => /\ output[1].frames = NumFrames
           /\ output[1].duration = DelaySum(NumFrames)

\* three frames with delays, all of them counted
C11_Witness ==
    /\ Emitted /\ args.max_duration = << >>
    /\ NumFrames = 3
    /\ DelaySum(3) >= 2
    /\ output[1].frames = 3
    /\ output[1].duration = DelaySum(3)

(***************************************************************************)
(* C12: with a duration ceiling M configured, an emitted record has        *)
(* duration >= M whenever the delays of the whole file sum to at least M,  *)
(* and whenever the scan left frames of the file unvisited.                *)
(***************************************************************************)
C12_TruncatedDurationReachesCeiling ==
    (Emitted /\ args.max_duration # << >>)
        => /\ (DelaySum(NumFrames) >= args.max_duration[1]
                 => output[1].duration >= args.max_duration[1])
           /\ (output[1].frames < NumFrames
                 => output[1].duration >= args.max_duration[1])

\* the ceiling of 2 ticks is crossed at the second of three frames
C12_Witness ==
    /\ Emitted /\ args.max_duration = <<2>>
    /\ NumFrames = 3
    /\ output[1].frames = 2
    /\ output[1].duration = 2

(***************************************************************************)
(* C13: the decoder requests of a run are, in order: the open, then one    *)
(* full decode, then header-only parses only.  Every run that got past the *)
(* first-frame step made exactly one full decode, the full decode hands    *)
(* out no frame other than frame 0, and none follows a header-only parse.  *)
(***************************************************************************)
C13_RequestOrder ==
    /\ \A i \in 1..Len(requests) :
          /\ (i = 1 <=> requests[i].op = "read_info")
          /\ (i = 2 <=> requests[i].op = "read_next_frame")
          /\ (i >= 3 <=> requests[i].op = "next_frame_info")
    /\ (pc \in {"Scanning", "Done", "Emitted"}
          => Len(requests) >= 2 /\ requests[2].op = "read_next_frame")
    /\ (pc \in {"Init"} => requests = << >>)
    /\ (pc \in {"Gate", "FirstFrame"} => Len(requests) = 1)
    \* frames handed out before a request: the full decode only ever sees 0
    /\ \A i \in 1..Len(requests) :
          requests[i].op = "read_next_frame" =>
              Cardinality({ j \in 1..(i - 1) : requests[j].result = "frame" }) = 0

\* three frames: one full decode, then header-only parses up to end of stream
C13_Witness ==
    /\ Emitted /\ NumFrames = 3
    /\ requests = << Request("read_info", "ok"),
                     Request("read_next_frame", "frame"),
                     Request("next_frame_info", "frame"),
                     Request("next_frame_info", "frame"),
                     Request("next_frame_info", "none") >>

(***************************************************************************)
(* C14 (as claimed): for a stream with no frames the emitted record has    *)
(* alpha = false, max_colors = 0, duration = 0 and frames = 0, whether or  *)
(* not the stream has a global palette.                                    *)
(***************************************************************************)
C14_NoFramesAllZero ==
    (Emitted /\ NumFrames = 0)
        => /\ output[1].alpha = FALSE
           /\ output[1].max_colors = 0
           /\ output[1].duration = 0
           /\ output[1].frames = 0

(***************************************************************************)
(* C14 (amended): for a stream with no frames the emitted record has       *)
(* alpha = false, duration = 0, frames = 0, the canvas size as width and   *)
(* height, and max_colors = the global palette's byte length / 3 if the    *)
(* stream has a global palette, 0 if it has none.                          *)
(***************************************************************************)
C14_NoFramesZeroButPalette ==
    (Emitted /\ NumFrames = 0)
        => /\ output[1].alpha = FALSE
           /\ output[1].duration = 0
           /\ output[1].frames = 0
           /\ output[1].width = file.width
           /\ output[1].height = file.height
           /\ output[1].max_colors =
                 (IF file.global_palette = << >> THEN 0
                  ELSE file.global_palette[1] \div 3)

\* no frames, a 256-colour global palette
C14_Witness ==
    /\ Emitted /\ NumFrames = 0
    /\ file.global_palette = <<768>>
    /\ output[1].max_colors = 256
    /\ output[1].frames = 0

(***************************************************************************)
(* C15: alpha is set-once: no step of a run takes probe.alpha from true to *)
(* false, and the record a step emits carries the flag as it stood.        *)
(***************************************************************************)
C15_AlphaSetOnce ==
    [][ /\ (probe.alpha = TRUE => probe'.alpha = TRUE)
        /\ (output' # output => output'[Len(output')].alpha = probe.alpha) ]_vars

\* the flag was set by frame 0 and later frames that set nothing were scanned
C15_Witness ==
    /\ Emitted /\ NumFrames >= 3 /\ pos >= 3
    /\ DeclaredAndUsed(1)
    /\ \A k \in 2..pos : ~BackgroundArea(k)
    /\ output[1].alpha = TRUE

\* the run failed at the limit check: the open succeeded, nothing followed
GateRejected ==
    pc = "Failed" /\ Len(requests) = 1 /\ requests[1].result = "ok"

\* the run got past the limit check
GatePassed ==
    \/ pc \in {"FirstFrame", "Scanning", "Done", "Emitted"}
    \/ pc = "Failed" /\ Len(requests) >= 2

(***************************************************************************)
(* C16: the limit check rejects exactly when max_pixels is set and the     *)
(* canvas area width * height, taken without wrap-around, exceeds it: an   *)
(* area equal to the cap, a zero area under a cap of 0, and an unset cap   *)
(* all pass.  (Canvas areas here stay below 2^31.)                         *)
(***************************************************************************)
C16_GateRejectsExactly ==
    LET over == args.max_pixels # << >>
                /\ file.width * file.height > args.max_pixels[1] IN
    /\ (GateRejected => over)
    /\ (GatePassed => ~over)

\* a 65535 x 32767 canvas under a cap of exactly its area is accepted
C16_Witness ==
    /\ Emitted
    /\ file.width = 65535 /\ file.height = 32767
    /\ args.max_pixels = <<2147385345>>

\* order of the phases of a run; Emitted is Done with the record printed
Phase(p) ==
    CASE p = "Init" -> 0
      [] p = "Gate" -> 0
      [] p = "FirstFrame" -> 1
      [] p = "Scanning" -> 2
      [] p = "Done" -> 3
      [] p = "Emitted" -> 3
      [] p = "Failed" -> 4

\* number of requests the decoder answered with a frame
FramesHandedOut ==
    Cardinality({ i \in 1..Len(requests) : requests[i].result = "frame" })

(***************************************************************************)
(* C17: every run eventually reaches Done or the failed state; the phase   *)
(* never moves backward (Init, FirstFrame, Scanning, Done, with failure    *)
(* last); and every request that is answered with a frame advances the     *)
(* decoder by exactly one frame, so no frame is handed out twice and no    *)
(* more frames are handed out than the file has.                           *)
(***************************************************************************)
C17_TerminatesForwardSinglePass ==
    /\ <>(pc \in {"Done", "Emitted", "Failed"})
    /\ [][ /\ Phase(pc') >= Phase(pc)
           /\ pc # "Failed"
           /\ pos' \in {pos, pos + 1}
           /\ FramesHandedOut' - FramesHandedOut = pos' - pos
           /\ pos' <= NumFrames ]_vars

\* a three-frame file scanned to the end: three frames handed out, once each
C17_Witness ==
    /\ pc = "Emitted" /\ NumFrames = 3 /\ pos = 3
    /\ FramesHandedOut = 3
    /\ Len(requests) = 5

(***************************************************************************)
(* C18: the emitted alpha is true exactly when frame 0 declares a          *)
(* transparent index that occurs in its decoded buffer, or some frame with *)
(* index >= 1 that the scan visited has background disposal with width > 0 *)
(* and height > 0.                                                         *)
(***************************************************************************)
C18_AlphaExactly ==
    Emitted =>
        (output[1].alpha = TRUE <=>
            \/ (NumFrames >= 1 /\ DeclaredAndUsed(1))
            \/ \E k \in 2..pos : BackgroundArea(k))

\* a visited background frame of zero width and an unvisited background
\* frame of nonzero area: the record says no alpha
C18_Witness ==
    /\ Emitted /\ NumFrames = 3 /\ pos = 2
    /\ ~DeclaredAndUsed(1)
    /\ file.frames[2].dispose = "Background" /\ file.frames[2].width = 0
    /\ BackgroundArea(3)
    /\ output[1].alpha = FALSE

====
